---- MODULE Spec2Model ----
(***************************************************************************)
(* A model of TeacherObservations.py: the two-row header parser            *)
(* (TeacherObservation.parse_categories), the row loader                   *)
(* (TeacherObservation.parse) and the agreement engine                     *)
(* (compare_teacher_evals), as driven by the script's __main__ block.      *)
(*                                                                         *)
(* A Python str is a sequence of one-character strings, so that            *)
(* startswith, split and strip are computed and not assumed.  An           *)
(* OrderedDict is a sequence of [key, obs] entries in insertion order (its *)
(* equality is order-sensitive, as sequence equality is); a                *)
(* defaultdict(list) is a function whose domain is the set of keys         *)
(* inserted so far.                                                        *)
(***************************************************************************)
EXTENDS Integers, Sequences, FiniteSets, TLC

VARIABLES
    hdr,       \* parse_categories called on its own: the two header rows
    catOut,    \* ... and what the call produced
    pc,        \* pc[e]: where TeacherObservation e stands in parse()
    header,    \* header[e]: the two header rows parse() read
    categories,\* self.categories
    times,     \* self.times
    results,   \* self.results
    line,      \* the csv line the loop of parse() holds
    cmp,       \* the outcome of compare_teacher_evals
    file,      \* the csv file behind self.filename, when parse() is repeated
    reader,    \* the number of data lines the csv reader has yielded from it
    first      \* the calls of parse() that ended, and what the first one left

vars == <<hdr, catOut, pc, header, categories, times, results, line, cmp,
          file, reader, first>>

\* What only a repeated parse() of one file uses.
fileVars == <<file, reader, first>>

----------------------------------------------------------------------------
(* Strings *)

EmptyStr == << >>
TimeStr == <<"T", "i", "m", "e">>
CommentStr == <<"C", "o", "m", "m", "e", "n", "t">>
CommentsStr == <<"C", "o", "m", "m", "e", "n", "t", "s">>
EngagementStr == <<"3", ".", " ", "E", "n", "g", "a", "g", "e", "m", "e", "n", "t">>
MinStr == <<"M", "I", "N">>

\* str.startswith(prefix)
StartsWith(s, prefix) ==
    /\ Len(s) >= Len(prefix)
    /\ SubSeq(s, 1, Len(prefix)) = prefix

\* The characters str.strip() removes (those of the model's alphabet).
IsSpace(c) == c = " "

RECURSIVE LStrip(_)
LStrip(s) ==
    IF s # << >> /\ IsSpace(Head(s)) THEN LStrip(Tail(s)) ELSE s

RECURSIVE RStrip(_)
RStrip(s) ==
    IF s # << >> /\ IsSpace(s[Len(s)]) THEN RStrip(SubSeq(s, 1, Len(s) - 1)) ELSE s

\* str.strip()
Strip(s) == RStrip(LStrip(s))

\* str.split(sep)[0]: the part of s before the first sep, all of s when
\* there is none.
RECURSIVE SplitFirst(_, _)
SplitFirst(s, sep) ==
    IF s = << >> \/ Head(s) = sep
    THEN << >>
    ELSE <<Head(s)>> \o SplitFirst(Tail(s), sep)

----------------------------------------------------------------------------
(* OrderedDict of lists *)

DictKeys(d) == {d[i].key : i \in 1..Len(d)}

\* The position of key k in d (k is a key of d).
KeyIndex(d, k) == CHOOSE i \in 1..Len(d) : d[i].key = k

\* d.setdefault(k, []) followed by d[k].append(v)
SetDefaultAssign(d, k, v) ==
    IF k \in DictKeys(d)
    THEN [d EXCEPT ![KeyIndex(d, k)].obs = <<v>>]
    ELSE Append(d, [key |-> k, obs |-> <<v>>])

SetDefaultAppend(d, k, v) ==
    IF k \in DictKeys(d)
    THEN [d EXCEPT ![KeyIndex(d, k)].obs = Append(@, v)]
    ELSE Append(d, [key |-> k, obs |-> <<v>>])

\* del d[k] (k is a key of d)
DictDel(d, k) == SelectSeq(d, LAMBDA entry : entry.key # k)

----------------------------------------------------------------------------
(* TeacherObservation.parse_categories *)

\* The first loop: forward-fill the broad row, starting from 'Time'.
RECURSIVE UnpackFrom(_, _)
UnpackFrom(row, last_category) ==
    IF row = << >>
    THEN << >>
    ELSE LET last == IF Head(row) # EmptyStr THEN Head(row) ELSE last_category
         IN  <<last>> \o UnpackFrom(Tail(row), last)

BroadCategoriesUnpacked(header_broad_categories) ==
    UnpackFrom(header_broad_categories, TimeStr)

\* The second loop, from column index on, categories being built so far.
RECURSIVE CollectFrom(_, _, _, _)
CollectFrom(unpacked, observation, index, cats) ==
    IF index > Len(unpacked)
    THEN cats
    ELSE CollectFrom(unpacked, observation, index + 1,
             IF ~StartsWith(unpacked[index], CommentStr)
             THEN SetDefaultAppend(cats, unpacked[index], observation[index])
             ELSE cats)

\* The whole static method: what it raises, or the OrderedDict it returns.
ParseCategories(header_broad_categories, header_observation_categories) ==
    IF Len(header_broad_categories) # Len(header_observation_categories)
    THEN [raised |-> "AssertionError", value |-> << >>]
    ELSE LET unpacked == BroadCategoriesUnpacked(header_broad_categories)
             cats == CollectFrom(unpacked, header_observation_categories, 1, << >>)
         IN  IF TimeStr \notin DictKeys(cats)
             THEN [raised |-> "KeyError", value |-> << >>]
             ELSE [raised |-> "none", value |-> DictDel(cats, TimeStr)]

----------------------------------------------------------------------------
(* defaultdict(list) *)

\* d[k] read: the list stored under k, the empty list when k is missing.
ListOf(d, k) == IF k \in DOMAIN d THEN d[k] ELSE << >>

\* d[k].append(v)
ListAppend(d, k, v) ==
    [o \in (DOMAIN d) \cup {k} |-> IF o = k THEN Append(ListOf(d, k), v) ELSE d[o]]

\* d[k] evaluated for its value alone: a missing k is inserted with [].
ListTouch(d, k) ==
    [o \in (DOMAIN d) \cup {k} |-> IF o = k THEN ListOf(d, k) ELSE d[o]]

----------------------------------------------------------------------------
(* TeacherObservation.parse *)

Evals == {1, 2}

NoLine == <<"no line">>
NoHeader == [broad |-> << >>, fine |-> << >>]

\* The (category, observation) pairs in the order the two nested loops of
\* parse() and of compare_teacher_evals visit them.
RECURSIVE Flatten(_)
Flatten(cats) ==
    IF cats = << >>
    THEN << >>
    ELSE [k \in 1..Len(Head(cats).obs) |->
              [category |-> Head(cats).key, observation |-> Head(cats).obs[k]]]
         \o Flatten(Tail(cats))

\* self.results as parse() sets it up: one defaultdict per category.
InitialResults(cats) ==
    [category \in {k \in DictKeys(cats) : k # EmptyStr} |-> << >>]

\* The flag parse() stores for a cell.
FlagOf(value) == IF Strip(value) = EmptyStr THEN 0 ELSE 1

\* The label parse() stores for a time-block cell.
TimeLabel(time_block) == Strip(SplitFirst(time_block, "-"))

\* The inner loops over one retained line, from the k-th pair of flat on,
\* result_position being k: the results reached and what was raised.
RECURSIVE WalkLine(_, _, _, _)
WalkLine(res, flat, k, ln) ==
    IF k > Len(flat)
    THEN [raised |-> "none", results |-> res]
    ELSE IF k + 1 > Len(ln)
    THEN [raised |-> "IndexError", results |-> res]
    ELSE IF flat[k].category \notin DOMAIN res
    THEN [raised |-> "KeyError", results |-> res]
    ELSE WalkLine([res EXCEPT ![flat[k].category] =
                       ListAppend(@, flat[k].observation, FlagOf(ln[k + 1]))],
                  flat, k + 1, ln)

\* parse() without its first statement: self.times is left as it was.
ParseBeginNoReset(e, hb, ho) ==
    LET parsed == ParseCategories(hb, ho)
    IN  /\ pc[e] = "new"
        /\ header' = [header EXCEPT ![e] = [broad |-> hb, fine |-> ho]]
        /\ IF parsed.raised # "none"
           THEN /\ pc' = [pc EXCEPT ![e] = parsed.raised]
                /\ UNCHANGED <<categories, results>>
           ELSE /\ pc' = [pc EXCEPT ![e] = "rows"]
                /\ categories' = [categories EXCEPT ![e] = parsed.value]
                /\ results' = [results EXCEPT ![e] = InitialResults(parsed.value)]
        /\ UNCHANGED <<hdr, catOut, times, line, cmp>>

\* self.initialize_results(); the two header lines; parse_categories; the
\* results object.
ParseBegin(e, hb, ho) ==
    LET parsed == ParseCategories(hb, ho)
    IN  /\ pc[e] = "new"
        /\ header' = [header EXCEPT ![e] = [broad |-> hb, fine |-> ho]]
        /\ times' = [times EXCEPT ![e] = << >>]
        /\ IF parsed.raised # "none"
           THEN /\ pc' = [pc EXCEPT ![e] = parsed.raised]
                /\ categories' = [categories EXCEPT ![e] = << >>]
                /\ results' = [results EXCEPT ![e] = << >>]
           ELSE /\ pc' = [pc EXCEPT ![e] = "rows"]
                /\ categories' = [categories EXCEPT ![e] = parsed.value]
                /\ results' = [results EXCEPT ![e] = InitialResults(parsed.value)]
        /\ UNCHANGED <<hdr, catOut, line, cmp>>

\* The file ends before its third line: reader.next() raises.
ParseNoHeader(e) ==
    /\ pc[e] = "new"
    /\ pc' = [pc EXCEPT ![e] = "StopIteration"]
    /\ categories' = [categories EXCEPT ![e] = << >>]
    /\ times' = [times EXCEPT ![e] = << >>]
    /\ results' = [results EXCEPT ![e] = << >>]
    /\ UNCHANGED <<hdr, catOut, header, line, cmp>>

\* "if time_block != ''": the line is not skipped.
TimeBlockStripped(time_block) == Strip(time_block) # EmptyStr

TimeBlockPresent(time_block) == time_block # EmptyStr

\* "for line in reader": the reader yields the line ln.
ReadLine(e, ln) ==
    /\ pc[e] = "rows"
    /\ line' = ln
    /\ pc' = [pc EXCEPT ![e] = "line"]
    /\ UNCHANGED <<hdr, catOut, header, categories, times, results, cmp>>

\* The body of the loop on the line it holds.
ProcessLine(e) ==
    /\ pc[e] = "line"
    /\ line' = NoLine
    /\ IF line = << >>
       THEN /\ pc' = [pc EXCEPT ![e] = "IndexError"]
            /\ UNCHANGED <<times, results>>
       ELSE IF ~TimeBlockPresent(line[1])
       THEN /\ pc' = [pc EXCEPT ![e] = "rows"]
            /\ UNCHANGED <<times, results>>
       ELSE LET walked == WalkLine(results[e], Flatten(categories[e]), 1, line)
            IN  /\ times' = [times EXCEPT ![e] = Append(@, TimeLabel(line[1]))]
                /\ results' = [results EXCEPT ![e] = walked.results]
                /\ pc' = [pc EXCEPT ![e] =
                             IF walked.raised = "none" THEN "rows" ELSE walked.raised]
    /\ UNCHANGED <<hdr, catOut, header, categories, cmp>>

\* The reader is exhausted: parse() returns.
ParseEnd(e) ==
    /\ pc[e] = "rows"
    /\ pc' = [pc EXCEPT ![e] = "done"]
    /\ UNCHANGED <<hdr, catOut, header, categories, times, results, line, cmp>>

----------------------------------------------------------------------------
(* count_filled_time_intervals and compare_teacher_evals *)

RECURSIVE SumSeq(_)
SumSeq(s) == IF s = << >> THEN 0 ELSE Head(s) + SumSeq(Tail(s))

RECURSIVE SumOver(_, _)
SumOver(f, keys) ==
    IF keys = {}
    THEN 0
    ELSE LET k == CHOOSE x \in keys : TRUE
         IN  SumSeq(f[k]) + SumOver(f, keys \ {k})

\* All the flag lists of an evaluation (eval.results.itervalues(), extended
\* by obs.values()); zip and any do not depend on their order or on a list
\* occurring twice.
ObservationLists(res) ==
    UNION {{res[category][o] : o \in DOMAIN res[category]} : category \in DOMAIN res}

\* zip(*observations) stops at the shortest list; zip() of nothing is empty.
ZipLength(lists) ==
    IF lists = {}
    THEN 0
    ELSE CHOOSE n \in {Len(l) : l \in lists} : \A l \in lists : n <= Len(l)

count_filled_time_intervals(lists) ==
    Cardinality({i \in 1..ZipLength(lists) : \E l \in lists : l[i] # 0})

\* sum([1 for index, x in enumerate(r1) if x == a and r2[index] == b])
CountPairs(r1, r2, a, b) ==
    Cardinality({i \in 1..Len(r1) : r1[i] = a /\ r2[i] = b})

both_matchAny(r1, r2) == Cardinality({i \in 1..Len(r1) : r1[i] = 1})

both_match(r1, r2) == CountPairs(r1, r2, 1, 1)
neither_match(r1, r2) == CountPairs(r1, r2, 0, 0)

first_onlySelf(r1, r2) == CountPairs(r1, r1, 1, 0)

first_only(r1, r2) == CountPairs(r1, r2, 1, 0)
second_only(r1, r2) == CountPairs(r1, r2, 0, 1)

\* sum([sum(observation) for observation in results[category].itervalues()])
TotalCounts(res, category) == SumOver(res[category], DOMAIN res[category])

\* 100*float(sum(r))/total as an exact fraction (total is not 0).
Share(r, total) == [num |-> 100 * SumSeq(r), den |-> total]

\* f1 < f2 for two fractions of positive denominators
FracLess(f1, f2) == f1.num * f2.den < f2.num * f1.den

\* The lesser of the two shares, lines 224-227.
Overlap(c1, c2) == IF FracLess(c1, c2) THEN c1 ELSE c2

NoTally == [both |-> 0, neither |-> 0, first |-> 0, second |-> 0]

\* sum(cnt.values())
CntTotal(cnt) == cnt.both + cnt.neither + cnt.first + cnt.second

\* The two nested loops of compare_teacher_evals from the k-th
\* (category, observation) pair on.  acc holds cnt, category_results, the
\* lines printed and the two results objects (reading a missing code
\* inserts it).
RECURSIVE CompareFrom(_, _, _)
CompareFrom(flat, k, acc) ==
    IF k > Len(flat)
    THEN acc
    ELSE LET category == flat[k].category
             observation == flat[k].observation
             total1 == TotalCounts(acc.results1, category)
             total2 == TotalCounts(acc.results2, category)
             r1 == ListOf(acc.results1[category], observation)
             r2 == ListOf(acc.results2[category], observation)
             touched == [acc EXCEPT
                            !.results1[category] = ListTouch(@, observation),
                            !.results2[category] = ListTouch(@, observation)]
         IN  IF Len(r2) < Len(r1)
             THEN [touched EXCEPT !.raised = "IndexError"]
             ELSE IF total1 = 0 \/ total2 = 0
             THEN [touched EXCEPT
                      !.raised = "ZeroDivisionError",
                      !.cnt = [both |-> @.both + both_match(r1, r2),
                               neither |-> @.neither + neither_match(r1, r2),
                               first |-> @.first + first_only(r1, r2),
                               second |-> @.second + second_only(r1, r2)]]
             ELSE CompareFrom(flat, k + 1,
                      [touched EXCEPT
                          !.cnt = [both |-> @.both + both_match(r1, r2),
                                   neither |-> @.neither + neither_match(r1, r2),
                                   first |-> @.first + first_only(r1, r2),
                                   second |-> @.second + second_only(r1, r2)],
                          !.category_results =
                              [c \in (DOMAIN @) \cup {category} |->
                                  IF c = category
                                  THEN Append(ListOf(@, category), both_match(r1, r2))
                                  ELSE @[c]],
                          !.printed = Append(@,
                              [category |-> category,
                               observation |-> observation,
                               both |-> both_match(r1, r2),
                               neither |-> neither_match(r1, r2),
                               first |-> first_only(r1, r2),
                               second |-> second_only(r1, r2),
                               overlap |-> Overlap(Share(r1, total1), Share(r2, total2))])])

\* The two assertions: the categories match and the times match.
ComparableByLength(eval1, eval2) ==
    /\ eval1.categories = eval2.categories
    /\ Len(eval1.times) = Len(eval2.times)

Comparable(eval1, eval2) ==
    /\ eval1.categories = eval2.categories
    /\ eval1.times = eval2.times

\* compare_teacher_evals(eval1, eval2): what it raised, or what it returned
\* (cnt, category_results, total_time_count), with what it printed and the
\* results objects as its reads leave them.
NotCompared == [raised |-> "not called", returned |-> FALSE, printed |-> << >>]

compare_teacher_evals(eval1, eval2) ==
    IF ~Comparable(eval1, eval2)
    THEN [raised |-> "AssertionError", returned |-> FALSE,
          results1 |-> eval1.results, results2 |-> eval2.results, printed |-> << >>]
    ELSE LET eval1_count == count_filled_time_intervals(ObservationLists(eval1.results))
             eval2_count == count_filled_time_intervals(ObservationLists(eval2.results))
             total_time_count ==
                 IF eval1_count > eval2_count THEN eval1_count ELSE eval2_count
             looped == CompareFrom(Flatten(eval1.categories), 1,
                           [raised |-> "none", cnt |-> NoTally,
                            category_results |-> << >>, printed |-> << >>,
                            results1 |-> eval1.results, results2 |-> eval2.results])
         IN  IF looped.raised # "none"
             THEN [raised |-> looped.raised, returned |-> FALSE,
                   results1 |-> looped.results1, results2 |-> looped.results2,
                   printed |-> looped.printed]
             ELSE IF CntTotal(looped.cnt) = 0
             THEN [raised |-> "ZeroDivisionError", returned |-> FALSE,
                   results1 |-> looped.results1, results2 |-> looped.results2,
                   printed |-> looped.printed]
             ELSE [raised |-> "none", returned |-> TRUE,
                   results1 |-> looped.results1, results2 |-> looped.results2,
                   printed |-> looped.printed,
                   cnt |-> looped.cnt,
                   category_results |-> looped.category_results,
                   total_time_count |-> total_time_count,
                   percent |-> [num |-> 100 * (looped.cnt.both + looped.cnt.neither),
                                den |-> CntTotal(looped.cnt)]]

\* A TeacherObservation as compare_teacher_evals reads it.
EvalOf(e) == [categories |-> categories[e], times |-> times[e], results |-> results[e]]

\* The call of the __main__ block, after both files were parsed.
Compare ==
    /\ pc[1] = "done"
    /\ pc[2] = "done"
    /\ cmp = NotCompared
    /\ cmp' = compare_teacher_evals(EvalOf(1), EvalOf(2))
    /\ results' = [results EXCEPT ![1] = cmp'.results1, ![2] = cmp'.results2]
    /\ UNCHANGED <<hdr, catOut, pc, header, categories, times, line>>

----------------------------------------------------------------------------
(* Inputs *)

\* The sequences over S of length at most n.
SeqsUpTo(S, n) == UNION {[1..k -> S] : k \in 0..n}

MaxHeaderCols == 3
MaxRows == 2
MaxMainRows == 1

A == <<"A">>
B == <<"B">>
a == <<"a">>
b == <<"b">>

\* parse_categories on its own: header rows of any two lengths.
CatBroadCells == {EmptyStr, A, B, TimeStr, CommentsStr}
CatFineCells == {EmptyStr, MinStr, a, b}
CatHeaders ==
    [broad : SeqsUpTo(CatBroadCells, MaxHeaderCols),
     fine : SeqsUpTo(CatFineCells, MaxHeaderCols)]

\* parse() of one file: the header layouts of the docstring (comments
\* last), with a comment column that is not last, a broad label that recurs,
\* a second column without a broad label, codes that repeat, no code at
\* all, and the header pairs parse_categories raises on.
ParseHeaders ==
    { [broad |-> <<EmptyStr, A, EmptyStr>>, fine |-> <<MinStr, a, b>>],
      [broad |-> <<EmptyStr, A, EmptyStr>>, fine |-> <<MinStr, EmptyStr, EmptyStr>>],
      [broad |-> <<EmptyStr, A, CommentsStr>>, fine |-> <<MinStr, a, EmptyStr>>],
      [broad |-> <<EmptyStr, CommentsStr, A>>, fine |-> <<MinStr, EmptyStr, a>>],
      [broad |-> <<EmptyStr, A, B, A>>, fine |-> <<MinStr, a, a, b>>],
      [broad |-> <<EmptyStr, EmptyStr, A>>, fine |-> <<MinStr, a, b>>],
      [broad |-> <<TimeStr, A, B>>, fine |-> <<MinStr, a, b>>],
      [broad |-> <<EmptyStr, CommentsStr>>, fine |-> <<MinStr, EmptyStr>>],
      [broad |-> <<A, EmptyStr>>, fine |-> <<MinStr, a>>],
      [broad |-> <<EmptyStr, A>>, fine |-> <<MinStr>>],
      [broad |-> << >>, fine |-> << >>] }
ParseTimeCells == {EmptyStr, <<" ">>, <<"5">>, <<"5", "-", "7">>}
ParseMarkCells == {EmptyStr, <<" ">>, <<"x">>}

\* The lines of w cells: a time-block cell, then marks.
LinesOfWidth(w, timeCells, markCells) ==
    IF w = 0
    THEN {<< >>}
    ELSE {<<t>> \o m : t \in timeCells, m \in [1..(w - 1) -> markCells]}

\* Lines of any width up to the wider header row's.
ParseLines(e) ==
    LET wide == IF Len(header[e].broad) > Len(header[e].fine)
                THEN Len(header[e].broad) ELSE Len(header[e].fine)
    IN  UNION {LinesOfWidth(w, ParseTimeCells, ParseMarkCells) : w \in 0..wide}

\* The two files of a comparison: well-formed headers, lines as wide as the
\* header.
MainHeaders ==
    { [broad |-> <<EmptyStr, A, EmptyStr>>, fine |-> <<MinStr, a, b>>],
      [broad |-> <<EmptyStr, A, EmptyStr>>, fine |-> <<MinStr, EmptyStr, EmptyStr>>],
      [broad |-> <<EmptyStr, A, B>>, fine |-> <<MinStr, a, a>>],
      [broad |-> <<EmptyStr, B, A>>, fine |-> <<MinStr, a, a>>],
      [broad |-> <<EmptyStr, A, EngagementStr>>, fine |-> <<MinStr, a, a>>] }
MainTimeCells == {<<"1">>, <<"2", "-", "3">>}
MainMarkCells == {EmptyStr, <<"x">>}
MainLines(e) == LinesOfWidth(Len(header[e].broad), MainTimeCells, MainMarkCells)

----------------------------------------------------------------------------
(* Specifications *)

NotCalled == [raised |-> "not called", value |-> << >>]

Constructed ==
    /\ pc = [e \in Evals |-> "new"]
    /\ header = [e \in Evals |-> NoHeader]
    /\ categories = [e \in Evals |-> << >>]
    /\ times = [e \in Evals |-> << >>]
    /\ results = [e \in Evals |-> << >>]
    /\ line = NoLine
    /\ cmp = NotCompared

\* No file is fixed: the reader yields whatever the specification draws.
NoFile == [lines |-> << >>, broad |-> << >>, fine |-> << >>, short |-> FALSE]
NoCall == [calls |-> 0, categories |-> << >>, times |-> << >>, results |-> << >>]
NoReplay ==
    /\ file = NoFile
    /\ reader = 0
    /\ first = NoCall

\* A line parse() keeps (its time-block cell is not empty).
Retained(ln) == ln # << >> /\ ln[1] # EmptyStr

\* TE.parse() starts on a file whose header rows are in headers.
Begin(e, headers) ==
    \E h \in headers : ParseBegin(e, h.broad, h.fine)

\* The reader yields one of lines; at most maxRows lines are kept.
Read(e, lines, maxRows) ==
    \E ln \in lines :
        /\ Retained(ln) => Len(times[e]) < maxRows
        /\ ReadLine(e, ln)

\* parse_categories applied to a header pair.
CallParseCategories ==
    /\ catOut = NotCalled
    /\ catOut' = ParseCategories(hdr.broad, hdr.fine)
    /\ UNCHANGED <<hdr, pc, header, categories, times, results, line, cmp>>

InitCategories ==
    /\ hdr \in CatHeaders
    /\ catOut = NotCalled
    /\ Constructed
    /\ NoReplay

NextCategories == CallParseCategories /\ UNCHANGED fileVars

SpecCategories == InitCategories /\ [][NextCategories]_vars

\* One TeacherObservation parsing one file.
InitParse ==
    /\ hdr = NoHeader
    /\ catOut = NotCalled
    /\ Constructed
    /\ NoReplay

NextParse ==
    \/ Begin(1, ParseHeaders) /\ UNCHANGED fileVars
    \/ ParseNoHeader(1) /\ UNCHANGED fileVars
    \/ Read(1, ParseLines(1), MaxRows) /\ UNCHANGED fileVars
    \/ ProcessLine(1) /\ UNCHANGED fileVars
    \/ ParseEnd(1) /\ UNCHANGED fileVars

SpecParse == InitParse /\ [][NextParse]_vars

\* The __main__ block: TE1.parse(), TE2.parse(), compare_teacher_evals.
Init == InitParse

Next ==
    \/ Begin(1, MainHeaders) /\ UNCHANGED fileVars
    \/ Read(1, MainLines(1), MaxMainRows) /\ UNCHANGED fileVars
    \/ ProcessLine(1) /\ UNCHANGED fileVars
    \/ ParseEnd(1) /\ UNCHANGED fileVars
    \/ pc[1] = "done" /\ Begin(2, MainHeaders) /\ UNCHANGED fileVars
    \/ Read(2, MainLines(2), MaxMainRows) /\ UNCHANGED fileVars
    \/ ProcessLine(2) /\ UNCHANGED fileVars
    \/ ParseEnd(2) /\ UNCHANGED fileVars
    \/ Compare /\ UNCHANGED fileVars

Spec == Init /\ [][Next]_vars

----------------------------------------------------------------------------
(* Claims about compare_teacher_evals, under Spec *)

\* compare_teacher_evals got past its two assertions.
Counted == cmp.raised \notin {"not called", "AssertionError"}

\* C1: for two parsed evaluations that pass the checks, every line printed
\* for an observation code has both + neither + first + second equal to
\* len(times), and the returned Counter sums to the number of observation
\* codes of the schema times len(times).
C1_TallyComplete ==
    /\ Counted =>
           \A k \in 1..Len(cmp.printed) :
               cmp.printed[k].both + cmp.printed[k].neither
                   + cmp.printed[k].first + cmp.printed[k].second = Len(times[1])
    /\ cmp.returned =>
           CntTotal(cmp.cnt) = Len(Flatten(categories[1])) * Len(times[1])

\* C2: when compare_teacher_evals(eval1, eval2) returns, so does
\* compare_teacher_evals(eval2, eval1), with first and second exchanged and
\* with the same both, neither and percent agreement.
C2_Symmetry ==
    cmp.returned =>
        LET swapped == compare_teacher_evals(EvalOf(2), EvalOf(1))
        IN  /\ swapped.returned
            /\ swapped.cnt.first = cmp.cnt.second
            /\ swapped.cnt.second = cmp.cnt.first
            /\ swapped.cnt.both = cmp.cnt.both
            /\ swapped.cnt.neither = cmp.cnt.neither
            /\ swapped.percent = cmp.percent

\* A comparison that returned with one rater alone marking a code.
C2_Witness ==
    /\ cmp.returned
    /\ cmp.cnt.first > 0
    /\ cmp.cnt.second = 0
    /\ cmp.cnt.both > 0

\* The schemas differ: in the number of categories, in a category name at
\* some position, or in the code list at some position.
SchemasDiffer(c1, c2) ==
    \/ Len(c1) # Len(c2)
    \/ \E i \in 1..Len(c1) :
           \/ c1[i].key # c2[i].key
           \/ Len(c1[i].obs) # Len(c2[i].obs)
           \/ \E j \in 1..Len(c1[i].obs) : c1[i].obs[j] # c2[i].obs[j]

\* The time-label sequences differ: in length or in some label.
TimesDiffer(t1, t2) ==
    \/ Len(t1) # Len(t2)
    \/ \E i \in 1..Len(t1) : t1[i] # t2[i]

\* C3: when the schemas or the time labels of the two evaluations differ,
\* compare_teacher_evals raises its AssertionError, having printed and
\* counted nothing and returning nothing; it returns only when both agree.
C3_ChecksFirst ==
    cmp.raised # "not called" =>
        /\ (SchemasDiffer(categories[1], categories[2]) \/ TimesDiffer(times[1], times[2]))
               => /\ cmp.raised = "AssertionError"
                  /\ ~cmp.returned
                  /\ cmp.printed = << >>
        /\ cmp.returned
               => /\ ~SchemasDiffer(categories[1], categories[2])
                  /\ ~TimesDiffer(times[1], times[2])

\* The comparison was refused for one time label alone: same schema, as
\* many time blocks, marks in both files.
C3_Witness ==
    /\ cmp.raised = "AssertionError"
    /\ categories[1] = categories[2]
    /\ Len(times[1]) = Len(times[2])
    /\ Len(times[1]) > 0
    /\ \E l \in ObservationLists(results[1]) : SumSeq(l) > 0
    /\ \E l \in ObservationLists(results[2]) : SumSeq(l) > 0

LowerChar(c) ==
    CASE c = "E" -> "e"
      [] c = "N" -> "n"
      [] c = "G" -> "g"
      [] c = "A" -> "a"
      [] c = "M" -> "m"
      [] c = "T" -> "t"
      [] OTHER -> c

Lower(str) == [i \in 1..Len(str) |-> LowerChar(str[i])]

Contains(str, sub) ==
    \E i \in 1..(Len(str) - Len(sub) + 1) : SubSeq(str, i, i + Len(sub) - 1) = sub

\* The category is left out of agreement scoring.
IsEngagement(category) ==
    Contains(Lower(category), <<"e", "n", "g", "a", "g", "e", "m", "e", "n", "t">>)

\* The tally of the codes of the categories that are scored.
RECURSIVE ScoredTally(_, _, _, _)
ScoredTally(flat, k, res1, res2) ==
    IF k > Len(flat)
    THEN NoTally
    ELSE LET rest == ScoredTally(flat, k + 1, res1, res2)
             r1 == res1[flat[k].category][flat[k].observation]
             r2 == res2[flat[k].category][flat[k].observation]
         IN  IF IsEngagement(flat[k].category)
             THEN rest
             ELSE [both |-> rest.both + CountPairs(r1, r2, 1, 1),
                   neither |-> rest.neither + CountPairs(r1, r2, 0, 0),
                   first |-> rest.first + CountPairs(r1, r2, 1, 0),
                   second |-> rest.second + CountPairs(r1, r2, 0, 1)]

\* C4: the flags of a category whose name contains "engagement" contribute
\* nothing to the returned counts: the Counter is the tally of the other
\* categories' codes alone.
C4_EngagementExcluded ==
    cmp.returned =>
        cmp.cnt = ScoredTally(Flatten(categories[1]), 1, results[1], results[2])

\* Some category has no mark at all from rater 1 or from rater 2.
SomeCategoryUnmarked ==
    \E i \in 1..Len(categories[1]) :
        \/ TotalCounts(results[1], categories[1][i].key) = 0
        \/ TotalCounts(results[2], categories[1][i].key) = 0

\* C8: when a rater marked nothing in some category, compare_teacher_evals
\* still completes and returns its result.
C8_ZeroTotalCompletes ==
    (Counted /\ SomeCategoryUnmarked) => cmp.returned

\* sum(x*y for x, y in zip(r1, r2)): the time blocks both raters marked.
RECURSIVE MarkedByBoth(_, _)
MarkedByBoth(r1, r2) ==
    IF r1 = << >> \/ r2 = << >>
    THEN 0
    ELSE Head(r1) * Head(r2) + MarkedByBoth(Tail(r1), Tail(r2))

\* v is min(100*sum(r1)/total1, 100*sum(r2)/total2), the totals not 0.
IsOverlapScore(v, r1, total1, r2, total2) ==
    LET s1 == 100 * SumSeq(r1)
        s2 == 100 * SumSeq(r2)
    IN  IF s1 * total2 <= s2 * total1
        THEN v * total1 = s1
        ELSE v * total2 = s2

----------------------------------------------------------------------------
(* Claims about parse(), under SpecParse *)

\* C5: after parse() completes, every category/code pair of the schema has
\* its flag sequence in results, of length len(times).
C5_FlagLengths ==
    pc[1] = "done" =>
        \A i \in 1..Len(categories[1]) :
            /\ categories[1][i].key \in DOMAIN results[1]
            /\ \A j \in 1..Len(categories[1][i].obs) :
                   Len(ListOf(results[1][categories[1][i].key], categories[1][i].obs[j]))
                       = Len(times[1])

\* How many times code occurs in a category's code list.
Occurrences(code, obs) == Cardinality({j \in 1..Len(obs) : obs[j] = code})

\* The number of flags results holds.
RECURSIVE FlagCount(_, _)
FlagCount(res, cats) ==
    IF cats = {}
    THEN 0
    ELSE LET category == CHOOSE x \in cats : TRUE
         IN  SumOver([o \in DOMAIN res[category] |-> <<Len(res[category][o])>>],
                     DOMAIN res[category])
             + FlagCount(res, cats \ {category})

\* C10: the body of the loop of parse(), on a line whose time-block cell is
\* empty, leaves times and results as they are, whatever the other cells
\* hold, and goes on to the next line; on any other line it appends one
\* time label and, when it runs to its end, one flag for every code of the
\* schema.
C10_SkipOrAppend ==
    [][(pc[1] = "line" /\ line # << >>) =>
           IF line[1] = EmptyStr
           THEN /\ pc'[1] = "rows"
                /\ times' = times
                /\ results' = results
           ELSE /\ Len(times'[1]) = Len(times[1]) + 1
                /\ SubSeq(times'[1], 1, Len(times[1])) = times[1]
                /\ pc'[1] = "rows" =>
                       /\ FlagCount(results'[1], DOMAIN results'[1])
                              = FlagCount(results[1], DOMAIN results[1])
                                    + Len(Flatten(categories[1]))
                       /\ \A i \in 1..Len(categories[1]) :
                              \A j \in 1..Len(categories[1][i].obs) :
                                  LET category == categories[1][i].key
                                      code == categories[1][i].obs[j]
                                  IN  Len(ListOf(results'[1][category], code))
                                          = Len(ListOf(results[1][category], code))
                                                + Occurrences(code, categories[1][i].obs)
      ]_vars

\* parse() holds a line to skip that has a mark in it, after it kept a line
\* with a mark.
C10_Witness ==
    /\ pc[1] = "line"
    /\ Len(line) > 1
    /\ line[1] = EmptyStr
    /\ \E k \in 2..Len(line) : Strip(line[k]) # EmptyStr
    /\ Len(times[1]) > 0
    /\ \E l \in ObservationLists(results[1]) : SumSeq(l) > 0

----------------------------------------------------------------------------
(* Claims about parse_categories, under SpecCategories *)

Called == catOut.raised # "not called"

\* The broad label of column i with the blanks filled from the left, 'Time'
\* before the first label.
FilledLabel(broad, i) ==
    IF \E j \in 1..i : broad[j] # EmptyStr
    THEN broad[CHOOSE j \in 1..i :
                   /\ broad[j] # EmptyStr
                   /\ \A k \in (j + 1)..i : broad[k] = EmptyStr]
    ELSE TimeStr

\* The category lists in which the code occurs.
ListsHolding(cats, code) ==
    {j \in 1..Len(cats) : \E k \in 1..Len(cats[j].obs) : cats[j].obs[k] = code}

\* s is t with some elements left out.
RECURSIVE IsSubsequence(_, _)
IsSubsequence(s, t) ==
    IF s = << >> THEN TRUE
    ELSE IF t = << >> THEN FALSE
    ELSE IF Head(s) = Head(t) THEN IsSubsequence(Tail(s), Tail(t))
    ELSE IsSubsequence(s, Tail(t))

ColumnsOf(broad, key) == {i \in 1..Len(broad) : FilledLabel(broad, i) = key}

Least(S) == CHOOSE m \in S : \A n \in S : m <= n

RECURSIVE Ascending(_)
Ascending(S) == IF S = {} THEN << >> ELSE <<Least(S)>> \o Ascending(S \ {Least(S)})

C7_RaisesOnLengthsOnly ==
    Called =>
        /\ Len(hdr.broad) = Len(hdr.fine) => catOut.raised = "none"
        /\ catOut.raised # "none" => Len(hdr.broad) # Len(hdr.fine)
        /\ catOut.raised = "none" =>
               \A key \in DictKeys(catOut.value) :
                   key # TimeStr /\ ~StartsWith(key, CommentStr)

----------------------------------------------------------------------------
(* The flags and the columns, under SpecParse *)

\* The cell of a line in a column, blank when the line ends before it.
CellAt(ln, column) == IF column <= Len(ln) THEN ln[column] ELSE EmptyStr

\* The columns of the header whose filled broad label is category and whose
\* fine-row cell is code, from left to right.
ColumnsOfCode(hd, category, code) ==
    Ascending({c \in ColumnsOf(hd.broad, category) : hd.fine[c] = code})

\* C11: for every retained line and every observation code of the schema,
\* the flag appended for the code is 1 when the line's cell in the column
\* of the code's fine-header cell is not blank after trimming, and 0 when it
\* is, whatever the header layout.
C11_FlagsByColumn ==
    [][(pc[1] = "line" /\ line # << >> /\ line[1] # EmptyStr /\ pc'[1] = "rows") =>
           \A i \in 1..Len(categories[1]) :
               \A j \in 1..Len(categories[1][i].obs) :
                   LET category == categories[1][i].key
                       code == categories[1][i].obs[j]
                       old == ListOf(results[1][category], code)
                       new == ListOf(results'[1][category], code)
                       columns == ColumnsOfCode(header[1], category, code)
                   IN  SubSeq(new, Len(old) + 1, Len(new)) =
                           [n \in 1..Len(columns) |->
                               IF Strip(CellAt(line, columns[n])) # EmptyStr
                               THEN 1 ELSE 0]
      ]_vars

----------------------------------------------------------------------------
(* parse() called again and again on one TeacherObservation *)

MaxCalls == 3
MaxFileLines == 2

\* The files: one that ends before its header rows, and files with a header
\* pair (well-formed, with codes that repeat, with a comment column first,
\* and the two pairs parse_categories raises on) and up to MaxFileLines
\* data lines, skipped, kept, short or empty.
ReparseHeaders ==
    { [broad |-> <<EmptyStr, A, EmptyStr>>, fine |-> <<MinStr, a, b>>],
      [broad |-> <<EmptyStr, A, EmptyStr>>, fine |-> <<MinStr, EmptyStr, EmptyStr>>],
      [broad |-> <<EmptyStr, CommentsStr, A>>, fine |-> <<MinStr, EmptyStr, a>>],
      [broad |-> <<A, EmptyStr>>, fine |-> <<MinStr, a>>],
      [broad |-> <<EmptyStr, A>>, fine |-> <<MinStr>>] }
ReparseTimeCells == {EmptyStr, <<"5", "-", "7">>}
ReparseMarkCells == {EmptyStr, <<"x">>}
ReparseLines(h) ==
    UNION {LinesOfWidth(w, ReparseTimeCells, ReparseMarkCells) : w \in 0..Len(h.broad)}
ReparseFiles ==
    {[NoFile EXCEPT !.short = TRUE]} \cup
    UNION {[lines : SeqsUpTo(ReparseLines(h), MaxFileLines),
            broad : {h.broad}, fine : {h.fine}, short : {FALSE}] :
           h \in ReparseHeaders}

\* parse() has returned or raised.
Ended(e) == pc[e] \notin {"new", "rows", "line"}

\* TE.parse() opens the file: a fresh reader, then the header rows.
OpenFile ==
    /\ IF file.short
       THEN ParseNoHeader(1)
       ELSE ParseBegin(1, file.broad, file.fine)
    /\ reader' = 0
    /\ UNCHANGED <<file, first>>

\* "for line in reader" on the file: its next data line.
ReadFile ==
    /\ reader < Len(file.lines)
    /\ ReadLine(1, file.lines[reader + 1])
    /\ reader' = reader + 1
    /\ UNCHANGED <<file, first>>

\* The reader is exhausted at the end of the file.
EndOfFile ==
    /\ reader = Len(file.lines)
    /\ ParseEnd(1)
    /\ UNCHANGED fileVars

\* The caller, parse() over (an exception caught, if it raised), is about
\* to call TE.parse() once more; what the first call left is noted.
CallAgain ==
    /\ Ended(1)
    /\ first.calls + 1 < MaxCalls
    /\ pc' = [pc EXCEPT ![1] = "new"]
    /\ first' = IF first.calls = 0
                THEN [calls |-> 1, categories |-> categories[1],
                      times |-> times[1], results |-> results[1]]
                ELSE [first EXCEPT !.calls = @ + 1]
    /\ UNCHANGED <<hdr, catOut, header, categories, times, results, line, cmp,
                   file, reader>>

InitReparse ==
    /\ hdr = NoHeader
    /\ catOut = NotCalled
    /\ Constructed
    /\ file \in ReparseFiles
    /\ reader = 0
    /\ first = NoCall

NextReparse ==
    \/ OpenFile
    \/ ReadFile
    \/ ProcessLine(1) /\ UNCHANGED fileVars
    \/ EndOfFile
    \/ CallAgain

SpecReparse == InitReparse /\ [][NextReparse]_vars

\* C12: whenever a call of parse() after the first has ended, categories,
\* times and results are what the first call left: nothing accumulates from
\* one call to the next.
C12_ReparseSame ==
    (first.calls >= 1 /\ Ended(1)) =>
        /\ categories[1] = first.categories
        /\ times[1] = first.times
        /\ results[1] = first.results

\* A second call has returned on a file with a kept line and a mark in it.
C12_Witness ==
    /\ first.calls >= 1
    /\ pc[1] = "done"
    /\ times[1] # << >>
    /\ \E category \in DOMAIN results[1] :
           \E code \in DOMAIN results[1][category] :
               \E n \in 1..Len(results[1][category][code]) :
                   results[1][category][code][n] = 1

============================================================================
